---- MODULE Spec2Model ----
(***************************************************************************)
(* Kitaku: departure recommendation from a train timetable and a rainfall  *)
(* forecast.  Model of TimetableService (timetable_service.py) and of      *)
(* RecommendationEngine (recommendation_engine.py).                        *)
(*                                                                         *)
(* Conventions                                                             *)
(*   - a datetime is a number of minutes since midnight of day 0; a        *)
(*     time-of-day (datetime.time) is a number of minutes in 0..1439;      *)
(*   - an "HH:MM" string is the pair <<hh, mm>> of its two numbers, so     *)
(*     that strptime can fail and strftime is not the identity;            *)
(*   - rainfall is in tenths of mm/h, confidence in thousandths;           *)
(*   - Python's None is the string "None".                                 *)
(*   - train types: "kyuko" = 急行, "junkyu" = 準急, "futsu" = 普通,        *)
(*     "tsukin_kaikyu" = 通勤快急, "kaisoku_kyuko" = 快速急行,              *)
(*     "kukan_kyuko" = 区間急行, "tsukin_junkyu" = 通勤準急,                *)
(*     "liner" = ライナー, "fumei" = 不明;                                  *)
(*     destinations: "Yodoyabashi" = 淀屋橋, "Nakanoshima" = 中之島,        *)
(*     "Moriguchishi" = 守口市.                                            *)
(***************************************************************************)
EXTENDS Integers, Sequences, FiniteSets, TLC

VARIABLES
    source,           \* the timetable file: [exists, header_ok, rows]
    timetable_cache,  \* TimetableService._timetable_cache: [set, entries]
    clock,            \* the system clock read by datetime.now()
    weather,          \* the WeatherPattern of the current request
    ret,              \* call record of the last operation: arguments and result
    request           \* the recommendation request in progress in KitakuApp

vars == <<source, timetable_cache, clock, weather, ret, request>>

None == "None"
MinutesPerDay == 24 * 60

\* ---------------------------------------------------------------- bounds
MaxRows == 3        \* rows in the timetable file
MaxCount == 4       \* largest count passed to find_next_departures
MaxRainfall == 520  \* largest max_rainfall_1h, in tenths of mm/h (52.0)

\* ------------------------------------------------------------ settings
walk_to_station_minutes == 10

\* ------------------------------------------------- time conversions
\* datetime.time() / time-of-day of a datetime
TimeOfDay(dt) == dt % MinutesPerDay

\* datetime.strptime(s, "%H:%M") succeeds
ValidTimeStr(s) == s[1] \in 0..23 /\ s[2] \in 0..59

\* TimetableService._parse_time, for a string strptime accepts
parse_time(s) == s[1] * 60 + s[2]

\* strftime("%H:%M") of a datetime or a time
strftime(dt) == <<TimeOfDay(dt) \div 60, TimeOfDay(dt) % 60>>

\* datetime.combine(day, time)
combine(day, tod) == day * MinutesPerDay + tod

DayOf(dt) == dt \div MinutesPerDay

\* ------------------------------------------------- travel time table
base_times_longest_default(destination) ==
    CASE destination = "Yodoyabashi" -> 35
      [] destination = "Nakanoshima" -> 45
      [] destination = "Moriguchishi" -> 8
      [] OTHER -> 45

base_times(destination) ==
    CASE destination = "Yodoyabashi" -> 35
      [] destination = "Nakanoshima" -> 45
      [] destination = "Moriguchishi" -> 8
      [] OTHER -> 35

\* speed factors in hundredths
speed_factors(train_type) ==
    CASE train_type = "tsukin_kaikyu" -> 80
      [] train_type = "kaisoku_kyuko" -> 85
      [] train_type = "kyuko" -> 90
      [] train_type = "kukan_kyuko" -> 95
      [] train_type = "junkyu" -> 100
      [] train_type = "tsukin_junkyu" -> 105
      [] train_type = "futsu" -> 120
      [] train_type = "liner" -> 75
      [] train_type = "fumei" -> 100
      [] OTHER -> 100

\* int(base_time * speed_factor)
estimate_travel_time(train_type, destination) ==
    (base_times(destination) * speed_factors(train_type)) \div 100

\* TimetableService._calculate_arrival_time: a time-of-day, wrapped in a day
calculate_arrival_time_of(departure_time, travel_minutes) ==
    TimeOfDay(departure_time + travel_minutes)

\* TimetableService.calculate_arrival_time(entry)
calculate_arrival_time(entry) ==
    calculate_arrival_time_of(parse_time(entry.departure_time),
        IF entry.travel_minutes # 0 THEN entry.travel_minutes
        ELSE estimate_travel_time(entry.train_type, entry.destination))

\* ------------------------------------------------- the timetable file
\* rows of the file as csv.DictReader yields them; a short row has None in
\* the fields it lacks
Row(t, ty, d) == [departure_time |-> t, train_type |-> ty, destination |-> d]

RowSet ==
    { Row(<<7, 40>>, "kyuko", "Yodoyabashi"),
      Row(<<7, 55>>, "junkyu", "Yodoyabashi"),
      Row(<<8, 10>>, "futsu", "Nakanoshima"),
      Row(<<23, 20>>, "kyuko", "Yodoyabashi"),     \* arrives 23:51
      Row(<<23, 50>>, "kyuko", "Yodoyabashi"),     \* arrives 00:21, next day
      Row(<<0, 5>>, "futsu", "Moriguchishi"),
      Row(<<25, 0>>, "junkyu", "Yodoyabashi"),     \* not a valid HH:MM
      Row(<<7, 45>>, "kyuko", None) }              \* a row missing a field

RECURSIVE SeqsUpTo(_, _)
SeqsUpTo(S, n) ==
    IF n = 0 THEN { <<>> }
    ELSE LET shorter == SeqsUpTo(S, n - 1)
         IN  shorter \cup { Append(s, x) : s \in shorter, x \in S }

Sources ==
    { [exists |-> FALSE, header_ok |-> TRUE, rows |-> <<>>] }
    \cup { [exists |-> TRUE, header_ok |-> h, rows |-> r] :
             h \in BOOLEAN, r \in SeqsUpTo(RowSet, MaxRows) }

\* a row the specification calls malformed
MissingField(row) == row.train_type = None \/ row.destination = None
Malformed(row) == MissingField(row) \/ ~ValidTimeStr(row.departure_time)

\* the TimetableEntry built from a row (lines 37-42)
EntryOf(row) ==
    [departure_time |-> row.departure_time,
     train_type |-> row.train_type,
     destination |-> row.destination,
     travel_minutes |-> estimate_travel_time(row.train_type, row.destination)]

\* list.sort(key=parse_time): stable insertion by parsed departure time
RECURSIVE InsertSorted(_, _)
InsertSorted(sorted, e) ==
    IF sorted = <<>> THEN <<e>>
    ELSE IF parse_time(sorted[Len(sorted)].departure_time) <= parse_time(e.departure_time)
         THEN Append(sorted, e)
         ELSE Append(InsertSorted(SubSeq(sorted, 1, Len(sorted) - 1), e),
                     sorted[Len(sorted)])

RECURSIVE SortByDeparture(_)
SortByDeparture(entries) ==
    IF entries = <<>> THEN <<>>
    ELSE InsertSorted(SortByDeparture(SubSeq(entries, 1, Len(entries) - 1)),
                      entries[Len(entries)])

\* the row loop of load_timetable (lines 35-47): outcome "ok" with the entries
\* built, or "raise" when a row raises something other than ValueError/KeyError
\* (None.strip() is an AttributeError)
RECURSIVE ReadRows(_, _, _)
ReadRows(src, i, acc) ==
    IF i > Len(src.rows) THEN [outcome |-> "ok", entries |-> acc]
    ELSE IF ~src.header_ok
         THEN ReadRows(src, i + 1, acc)                      \* KeyError: skipped
         ELSE IF MissingField(src.rows[i])
              THEN [outcome |-> "raise", entries |-> acc]    \* AttributeError
              ELSE ReadRows(src, i + 1, Append(acc, EntryOf(src.rows[i])))

LoadOk(entries) == [ok |-> TRUE, error |-> None, entries |-> entries]
LoadFail(err) == [ok |-> FALSE, error |-> err, entries |-> <<>>]

\* TimetableService.load_timetable when the cache is empty (lines 26-63)
ParseSource(src) ==
    IF ~src.exists THEN LoadFail("TimetableException")
    ELSE LET read == ReadRows(src, 1, <<>>)
         IN  IF read.outcome = "raise" THEN LoadFail("TimetableException")
             ELSE IF read.entries = <<>> THEN LoadFail("TimetableException")
             ELSE IF \E i \in 1..Len(read.entries) :
                        ~ValidTimeStr(read.entries[i].departure_time)
                  \* the sort key raises ValidationException, re-raised at line 63
                  THEN LoadFail("TimetableException")
                  ELSE LoadOk(SortByDeparture(read.entries))

load_timetable_uncached(cache, src) == ParseSource(src)

\* TimetableService.load_timetable (lines 21-63)
load_timetable(cache, src) ==
    IF cache.set THEN LoadOk(cache.entries) ELSE ParseSource(src)

\* the cache after a call of load_timetable
CacheAfter(cache, src) ==
    LET l == load_timetable(cache, src)
    IN  IF l.ok THEN [set |-> TRUE, entries |-> l.entries] ELSE cache

EmptyCache == [set |-> FALSE, entries |-> <<>>]

\* ------------------------------------------------- timetable queries
Take(seq, n) == SubSeq(seq, 1, IF n < Len(seq) THEN n ELSE Len(seq))

\* line 84: the train leaves at or after the earliest time the station is reached
Catchable_strict(train_departure_time, min_departure) ==
    train_departure_time > min_departure

Catchable(train_departure_time, min_departure) ==
    train_departure_time >= min_departure

\* the first loop of find_next_departures (lines 82-87)
RECURSIVE TodayLoop(_, _, _, _, _)
TodayLoop(timetable, i, min_departure, count, next_departures) ==
    IF i > Len(timetable) THEN next_departures
    ELSE IF Catchable(parse_time(timetable[i].departure_time), min_departure)
         THEN LET appended == Append(next_departures, timetable[i])
              IN  IF Len(appended) >= count THEN appended
                  ELSE TodayLoop(timetable, i + 1, min_departure, count, appended)
         ELSE TodayLoop(timetable, i + 1, min_departure, count, next_departures)

\* line 90: today's trains do not fill the list
needs_tomorrow_never(next_departures, count) == FALSE

needs_tomorrow(next_departures, count) == Len(next_departures) < count

\* lines 91-93: tomorrow's first trains
wrap_around_from_end(timetable, remaining_count) ==
    SubSeq(timetable,
           IF remaining_count < Len(timetable)
           THEN Len(timetable) - remaining_count + 1 ELSE 1,
           Len(timetable))

wrap_around(timetable, remaining_count) == Take(timetable, remaining_count)

\* find_next_departures with the wrap-around entries put before today's
find_next_departures_wrap_first(timetable, current_time, count) ==
    LET min_departure == TimeOfDay(current_time + walk_to_station_minutes)
        today == TodayLoop(timetable, 1, min_departure, count, <<>>)
        filled == IF Len(today) < count
                  THEN Take(timetable, count - Len(today)) \o today
                  ELSE today
    IN  Take(filled, count)

\* TimetableService.find_next_departures on a loaded timetable (lines 74-95)
find_next_departures(timetable, current_time, count) ==
    LET min_departure == TimeOfDay(current_time + walk_to_station_minutes)
        today == TodayLoop(timetable, 1, min_departure, count, <<>>)
        filled == IF needs_tomorrow(today, count)
                  THEN today \o wrap_around(timetable, count - Len(today))
                  ELSE today
    IN  Take(filled, count)

\* line 115: the train arrives by the target time-of-day
ArrivesBy_strict(arrival_time, target_tod) == arrival_time < target_tod

ArrivesBy(arrival_time, target_tod) == arrival_time <= target_tod

\* the loop of find_optimal_departure (lines 109-121); best = 0 is "no entry"
RECURSIVE OptimalLoop(_, _, _, _, _)
OptimalLoop(timetable, i, target_tod, best, min_time_diff) ==
    IF i > Len(timetable) THEN best
    ELSE LET arrival_time == calculate_arrival_time(timetable[i])
             time_diff == target_tod - arrival_time
         IN  IF ArrivesBy(arrival_time, target_tod) /\ time_diff >= 0
                /\ (best = 0 \/ time_diff < min_time_diff)
             THEN OptimalLoop(timetable, i + 1, target_tod, i, time_diff)
             ELSE OptimalLoop(timetable, i + 1, target_tod, best, min_time_diff)

\* TimetableService.find_optimal_departure (lines 103-123): the index of the
\* entry returned, 0 for None.  target_departure (line 104) is computed from
\* buffer_minutes and never read.
find_optimal_departure(timetable, target_arrival, buffer_minutes) ==
    LET target_departure == target_arrival - buffer_minutes
    IN  OptimalLoop(timetable, 1, TimeOfDay(target_arrival), 0, 0)

get_departure_options_for_weather_five(timetable, weather_risk_level, current_time) ==
    Take(find_next_departures(timetable, current_time, 10), 5)

\* TimetableService.get_departure_options_for_weather (lines 142-153)
get_departure_options_for_weather(timetable, weather_risk_level, current_time) ==
    LET base_options == find_next_departures(timetable, current_time, 10)
    IN  IF weather_risk_level = "high" THEN Take(base_options, 3)
        ELSE IF weather_risk_level = "medium" THEN Take(base_options, 5)
        ELSE Take(base_options, 7)

\* ------------------------------------------------- recommendation engine
Min(a, b) == IF a < b THEN a ELSE b
Max(a, b) == IF a > b THEN a ELSE b

\* pattern_buffers.get(pattern_type, 5)
pattern_buffers(pattern_type) ==
    CASE pattern_type = "clear" -> 0
      [] pattern_type = "light_rain" -> 5
      [] pattern_type = "heavy_rain" -> 15
      [] pattern_type = "improving" -> 3
      [] OTHER -> 5

\* risk_buffers.get(risk_level, 5)
risk_buffers(risk_level) ==
    CASE risk_level = "low" -> 0
      [] risk_level = "medium" -> 5
      [] risk_level = "high" -> 10
      [] OTHER -> 5

\* total_buffer of _calculate_delay_buffer, returned without the cap of line 100
calculate_delay_buffer_uncapped(weather_pattern) ==
    5 + pattern_buffers(weather_pattern.pattern_type)
      + risk_buffers(weather_pattern.risk_level)
      + Min((weather_pattern.max_rainfall_1h * 2) \div 10, 20)

\* RecommendationEngine._calculate_delay_buffer (lines 71-100); int(max * 2)
\* of a rainfall in tenths is (2 * tenths) \div 10
calculate_delay_buffer(weather_pattern) ==
    LET base_buffer == 5
        rainfall_buffer == Min((weather_pattern.max_rainfall_1h * 2) \div 10, 20)
        total_buffer == base_buffer
                        + pattern_buffers(weather_pattern.pattern_type)
                        + risk_buffers(weather_pattern.risk_level)
                        + rainfall_buffer
    IN  Min(total_buffer, 45)

\* pattern_adjustments.get(pattern_type, 0), in thousandths
pattern_adjustments(pattern_type) ==
    CASE pattern_type = "clear" -> 100
      [] pattern_type = "light_rain" -> 0
      [] pattern_type = "heavy_rain" -> 0 - 200
      [] pattern_type = "improving" -> 50
      [] OTHER -> 0

\* risk_adjustments with medium given the adjustment of low
risk_adjustments_flat(risk_level) ==
    CASE risk_level = "low" -> 100
      [] risk_level = "medium" -> 100
      [] risk_level = "high" -> 0 - 150
      [] OTHER -> 0

\* risk_adjustments.get(risk_level, 0), in thousandths
risk_adjustments(risk_level) ==
    CASE risk_level = "low" -> 100
      [] risk_level = "medium" -> 0
      [] risk_level = "high" -> 0 - 150
      [] OTHER -> 0

\* the confidence before the clamp of line 206, in thousandths: 0.02 per mm/h
\* is 2 thousandths per tenth of mm/h
RawConfidence(weather_pattern) ==
    LET base_confidence == 800
        rainfall_penalty == Min(weather_pattern.max_rainfall_1h * 2, 200)
    IN  base_confidence
        + pattern_adjustments(weather_pattern.pattern_type)
        + risk_adjustments(weather_pattern.risk_level)
        - rainfall_penalty

\* _calculate_confidence_level without the floor of line 206
calculate_confidence_level_no_floor(weather_pattern) ==
    Min(1000, RawConfidence(weather_pattern))

\* RecommendationEngine._calculate_confidence_level (lines 173-206)
calculate_confidence_level(weather_pattern) ==
    Max(300, Min(1000, RawConfidence(weather_pattern)))

\* RecommendationEngine._has_weather_impact (lines 165-171)
has_weather_impact(weather_pattern) ==
    \/ weather_pattern.risk_level \in {"medium", "high"}
    \/ weather_pattern.current_rainfall > 10
    \/ weather_pattern.max_rainfall_1h > 20

choose_best_option_by_weather_middle_of_all(options, weather_pattern) ==
    LET available_options == Min(3, Len(options))
    IN  IF weather_pattern.pattern_type = "heavy_rain" THEN 1
        ELSE IF weather_pattern.pattern_type = "improving"
             THEN (Len(options) \div 2) + 1
        ELSE IF weather_pattern.pattern_type = "light_rain"
             THEN IF weather_pattern.rainfall_trend = "increasing" THEN 1
                  ELSE Min(1, available_options - 1) + 1
        ELSE 1

\* RecommendationEngine._choose_best_option_by_weather (lines 134-163): the
\* index chosen in options, counted from 1
choose_best_option_by_weather(options, weather_pattern) ==
    LET available_options == Min(3, Len(options))
    IN  IF weather_pattern.pattern_type = "heavy_rain" THEN 1
        ELSE IF weather_pattern.pattern_type = "improving"
             THEN (available_options \div 2) + 1
        ELSE IF weather_pattern.pattern_type = "light_rain"
             THEN IF weather_pattern.rainfall_trend = "increasing" THEN 1
                  ELSE Min(1, available_options - 1) + 1
        ELSE 1

adjusted_target_without_buffer(target_arrival_time, delay_buffer) ==
    target_arrival_time

\* the target moved earlier by the delay buffer: line 113
adjusted_target(target_arrival_time, delay_buffer) ==
    target_arrival_time - delay_buffer

\* RecommendationEngine._select_optimal_departure (lines 102-132) on a loaded
\* timetable; target_arrival_time is <<>> for None.  The entry selected, as a
\* one-element sequence, or <<>> when ValidationException is raised.
select_optimal_departure(timetable, weather_pattern, delay_buffer, target_arrival_time, current_time) ==
    LET optimal_departure ==
            IF target_arrival_time = <<>> THEN 0
            ELSE find_optimal_departure(timetable,
                     adjusted_target(target_arrival_time[1], delay_buffer), 5)
        departure_options ==
            get_departure_options_for_weather(timetable,
                weather_pattern.risk_level, current_time)
    IN  IF optimal_departure # 0 THEN <<timetable[optimal_departure]>>
        ELSE IF departure_options = <<>> THEN <<>>
        ELSE <<departure_options[
                 choose_best_option_by_weather(departure_options, weather_pattern)]>>

\* RecommendationEngine._calculate_departure_with_walk_time (lines 208-225):
\* the train is put on the date of the system clock and the result is
\* compared with the system clock, datetime.now()
calculate_departure_with_walk_time(train_departure_time, system_clock) ==
    LET train_datetime == combine(DayOf(system_clock), parse_time(train_departure_time))
        actual_departure == train_datetime - walk_to_station_minutes
        current_time == system_clock
    IN  IF actual_departure < current_time THEN strftime(current_time)
        ELSE strftime(actual_departure)

\* the DepartureRecommendation built for one train (lines 316-330, 354-368)
Recommendation(entry, weather_pattern, delay_buffer, system_clock) ==
    [recommended_departure |->
         calculate_departure_with_walk_time(entry.departure_time, system_clock),
     arrival_time |-> strftime(calculate_arrival_time(entry)),
     weather_impact |-> has_weather_impact(weather_pattern),
     delay_buffer |-> delay_buffer,
     confidence_level |-> calculate_confidence_level(weather_pattern)]

\* RecommendationEngine.get_alternative_options (lines 227-244)
get_alternative_options(timetable, weather_pattern, primary_recommendation, current_time) ==
    LET departure_options ==
            get_departure_options_for_weather(timetable,
                weather_pattern.risk_level, current_time)
        Other(option) ==
            option.departure_time # primary_recommendation.recommended_departure
    IN  Take(SelectSeq(departure_options, Other), 3)

\* ------------------------------------------------- inputs of the store
Day == 1
At(h, m) == combine(Day, h * 60 + m)

\* caller-supplied current times
NowSet == { At(7, 30), At(7, 31), At(7, 50), At(18, 0), At(23, 45), At(23, 55) }

\* caller-supplied target arrival times
TargetSet == { At(0, 10), At(8, 11), At(8, 26), At(8, 30), At(9, 4), At(23, 59) }

BufferSet == { 0, 5, 10 }

RiskLevels == { "low", "medium", "high" }
PatternTypes == { "clear", "light_rain", "heavy_rain", "improving" }
Trends == { "increasing", "decreasing", "stable" }

NoWeather == [pattern_type |-> None, risk_level |-> None, rainfall_trend |-> None,
              current_rainfall |-> 0, max_rainfall_1h |-> 0]
NoCall == [op |-> "none"]
NoRequest == [pc |-> "idle"]

\* ------------------------------------------------- the timetable store
StoreUnchanged == UNCHANGED <<source, clock, weather, request>>

\* load_timetable(): lines 21-63
LoadTimetable ==
    LET l == load_timetable(timetable_cache, source)
    IN  /\ timetable_cache' = CacheAfter(timetable_cache, source)
        /\ ret' = [op |-> "load_timetable", ok |-> l.ok, error |-> l.error,
                   result |-> l.entries, cached |-> timetable_cache.set,
                   source |-> source]
        /\ StoreUnchanged

\* clear_cache(): lines 195-198
ClearCache ==
    /\ timetable_cache' = EmptyCache
    /\ ret' = [op |-> "clear_cache"]
    /\ StoreUnchanged

\* a query whose load_timetable() raised
Raised(opname, l) == [op |-> opname, ok |-> FALSE, error |-> l.error]

\* find_next_departures(current_time, count): lines 65-95
FindNextDepartures ==
    \E now \in NowSet, count \in 0..MaxCount :
        LET l == load_timetable(timetable_cache, source)
        IN  /\ timetable_cache' = CacheAfter(timetable_cache, source)
            /\ ret' = IF ~l.ok THEN Raised("find_next_departures", l)
                      ELSE [op |-> "find_next_departures", ok |-> TRUE,
                            timetable |-> l.entries, current_time |-> now,
                            count |-> count,
                            result |-> find_next_departures(l.entries, now, count)]
            /\ StoreUnchanged

\* the record of a find_optimal_departure call
OptimalCall(l, target, buffer, from_entry) ==
    IF ~l.ok THEN Raised("find_optimal_departure", l)
    ELSE LET best == find_optimal_departure(l.entries, target, buffer)
         IN  [op |-> "find_optimal_departure", ok |-> TRUE,
              timetable |-> l.entries, target_arrival |-> target,
              buffer_minutes |-> buffer, from_entry |-> from_entry,
              found |-> best # 0,
              result |-> IF best = 0 THEN <<>> ELSE <<l.entries[best]>>]

\* find_optimal_departure(target_arrival, buffer_minutes): lines 97-123
FindOptimalDeparture ==
    \E target \in TargetSet, buffer \in BufferSet :
        LET l == load_timetable(timetable_cache, source)
        IN  /\ timetable_cache' = CacheAfter(timetable_cache, source)
            /\ ret' = OptimalCall(l, target, buffer, 0)
            /\ StoreUnchanged

\* calculate_arrival_time(entry) of an entry of the loaded timetable: lines 125-131
CalculateArrivalTime ==
    /\ timetable_cache.set
    /\ \E i \in 1..Len(timetable_cache.entries) :
          ret' = [op |-> "calculate_arrival_time", ok |-> TRUE, index |-> i,
                  result |-> calculate_arrival_time(timetable_cache.entries[i])]
    /\ UNCHANGED timetable_cache
    /\ StoreUnchanged

\* find_optimal_departure(calculate_arrival_time(e) + buffer, buffer): the
\* caller puts the arrival time on a date and adds the buffer
FindOptimalAfterArrival ==
    /\ ret.op = "calculate_arrival_time"
    /\ \E buffer \in BufferSet :
          LET l == load_timetable(timetable_cache, source)
              target == combine(Day, ret.result) + buffer
          IN  /\ timetable_cache' = CacheAfter(timetable_cache, source)
              /\ ret' = OptimalCall(l, target, buffer, ret.index)
    /\ StoreUnchanged

\* get_departure_options_for_weather(risk_level, current_time): lines 133-153
GetDepartureOptionsForWeather ==
    \E now \in NowSet, risk \in RiskLevels :
        LET l == load_timetable(timetable_cache, source)
        IN  /\ timetable_cache' = CacheAfter(timetable_cache, source)
            /\ ret' = IF ~l.ok THEN Raised("get_departure_options_for_weather", l)
                      ELSE [op |-> "get_departure_options_for_weather", ok |-> TRUE,
                            timetable |-> l.entries, current_time |-> now,
                            risk_level |-> risk,
                            result |-> get_departure_options_for_weather(l.entries, risk, now)]
            /\ StoreUnchanged

Init ==
    /\ source \in Sources
    /\ timetable_cache = EmptyCache
    /\ clock = At(7, 0)
    /\ weather = NoWeather
    /\ ret = NoCall
    /\ request = NoRequest

Next ==
    \/ LoadTimetable
    \/ ClearCache
    \/ FindNextDepartures
    \/ FindOptimalDeparture
    \/ CalculateArrivalTime
    \/ FindOptimalAfterArrival
    \/ GetDepartureOptionsForWeather

Spec == Init /\ [][Next]_vars

\* ------------------------------------------------- properties of the store
DepartureTimes(entries) == [i \in 1..Len(entries) |-> entries[i].departure_time]

RECURSIVE SelectCatchable(_, _)
SelectCatchable(entries, min_departure) ==
    IF entries = <<>> THEN <<>>
    ELSE LET rest == SelectCatchable(Tail(entries), min_departure)
         IN  IF parse_time(Head(entries).departure_time) >= min_departure
             THEN <<Head(entries)>> \o rest ELSE rest

Ascending(entries) ==
    \A i, j \in 1..Len(entries) :
        i < j => parse_time(entries[i].departure_time) <= parse_time(entries[j].departure_time)

FoundOptimal == ret.op = "find_optimal_departure" /\ ret.ok

\* C2: find_optimal_departure only returns an entry arriving by
\* target_arrival - buffer_minutes, the one with the smallest non-negative gap
\* to the target among those, and None when no entry arrives by then.
C2_OptimalHonoursBuffer ==
    FoundOptimal =>
        LET tt == ret.timetable
            limit == TimeOfDay(ret.target_arrival - ret.buffer_minutes)
            target == TimeOfDay(ret.target_arrival)
            InTime == { i \in 1..Len(tt) : calculate_arrival_time(tt[i]) <= limit }
        IN  IF InTime = {} THEN ~ret.found
            ELSE /\ ret.found
                 /\ calculate_arrival_time(ret.result[1]) <= limit
                 /\ target - calculate_arrival_time(ret.result[1]) >= 0
                 /\ \A i \in InTime :
                       target - calculate_arrival_time(ret.result[1])
                           <= target - calculate_arrival_time(tt[i])

RoundTrip == FoundOptimal /\ ret.from_entry # 0

RoundTripHolds ==
    /\ ret.found
    /\ calculate_arrival_time(ret.result[1]) <= TimeOfDay(ret.target_arrival)

\* the target calculate_arrival_time(e) + buffer is on the day of the arrival
SameDayTarget ==
    calculate_arrival_time(ret.timetable[ret.from_entry]) + ret.buffer_minutes
        < MinutesPerDay

\* C3 as stated: the round trip through calculate_arrival_time(e) + buffer
\* always finds an entry arriving by the target, midnight crossing included.
C3_RoundTripAnyTarget == RoundTrip => RoundTripHolds

\* C3 (amended): when calculate_arrival_time(e) + buffer does not cross
\* midnight, find_optimal_departure(calculate_arrival_time(e) + buffer, buffer)
\* returns an entry whose arrival time-of-day is at most the target's.
C3_RoundTripSameDay == (RoundTrip /\ SameDayTarget) => RoundTripHolds

C3_Witness == RoundTrip /\ SameDayTarget /\ ret.buffer_minutes = 0 /\ ret.found

FoundNext == ret.op = "find_next_departures" /\ ret.ok

\* C4: find_next_departures returns at most count entries: first, in
\* ascending order, the entries departing at or after time-of-day(now + walk
\* offset), then, only if these are fewer than count, entries from the start
\* of the sorted timetable.
C4_NextDepartures ==
    FoundNext =>
        LET today == SelectCatchable(ret.timetable,
                         TimeOfDay(ret.current_time + walk_to_station_minutes))
            same_day == Take(today, ret.count)
        IN  /\ Len(ret.result) <= ret.count
            /\ Ascending(same_day)
            /\ ret.result =
                 IF Len(today) >= ret.count THEN same_day
                 ELSE today \o Take(ret.timetable, ret.count - Len(today))

\* a call that takes some same-day trains and wraps around for the rest
C4_Witness ==
    /\ FoundNext
    /\ Len(ret.result) = ret.count
    /\ \E k \in 1..(ret.count - 1) :
          /\ parse_time(ret.result[k].departure_time)
                >= TimeOfDay(ret.current_time + walk_to_station_minutes)
          /\ parse_time(ret.result[k + 1].departure_time)
                < TimeOfDay(ret.current_time + walk_to_station_minutes)

ExampleCall ==
    /\ FoundNext
    /\ DepartureTimes(ret.timetable) = << <<7, 40>>, <<7, 55>>, <<8, 10>> >>
    /\ ret.current_time = At(7, 30)
    /\ ret.count = 2

\* C5 as stated: with trains at 07:40, 07:55, 08:10, now = 07:30 and a walk
\* offset of 10 minutes, find_next_departures(now, 2) is [07:55, 08:10].
C5_ExampleSkipsBoundary ==
    ExampleCall => DepartureTimes(ret.result) = << <<7, 55>>, <<8, 10>> >>

\* C5 (amended): in that example find_next_departures(now, 2) is
\* [07:40, 07:55]: the 07:40 train, leaving exactly at now + offset, is kept.
C5_ExampleKeepsBoundary ==
    ExampleCall => DepartureTimes(ret.result) = << <<7, 40>>, <<7, 55>> >>

C5_Witness == ExampleCall /\ Len(ret.result) = 2

RECURSIVE ValidRows(_)
ValidRows(rows) ==
    IF rows = <<>> THEN <<>>
    ELSE IF Malformed(Head(rows)) THEN ValidRows(Tail(rows))
         ELSE <<EntryOf(Head(rows))>> \o ValidRows(Tail(rows))

\* C10: load() skips malformed rows and returns all valid rows; it fails
\* only when the source is missing, empty or without any valid row.
C10_LoadSkipsMalformedRows ==
    (ret.op = "load_timetable" /\ ~ret.cached) =>
        LET valid == IF source.header_ok THEN ValidRows(source.rows) ELSE <<>>
        IN  IF ~source.exists \/ valid = <<>>
            THEN ~ret.ok /\ ret.error = "TimetableException"
            ELSE /\ ret.ok
                 /\ Len(ret.result) = Len(valid)
                 /\ \A i \in 1..Len(valid) :
                       \E j \in 1..Len(ret.result) : ret.result[j] = valid[i]

\* ------------------------------------------------- weather-dependent figures
\* Every WeatherPattern the data model admits, by max_rainfall_1h.
CalcWeather ==
    { [pattern_type |-> p, risk_level |-> k, rainfall_trend |-> "stable",
       current_rainfall |-> 0, max_rainfall_1h |-> r] :
        p \in PatternTypes, k \in RiskLevels, r \in 0..MaxRainfall }

CalcUnchanged == UNCHANGED <<source, timetable_cache, clock, weather, request>>

\* _calculate_delay_buffer(weather_pattern): lines 71-100
CalculateDelayBuffer ==
    /\ ret' = [op |-> "calculate_delay_buffer",
               result |-> calculate_delay_buffer(weather)]
    /\ CalcUnchanged

\* _calculate_confidence_level(weather_pattern, entry): lines 173-206
CalculateConfidenceLevel ==
    /\ ret' = [op |-> "calculate_confidence_level",
               result |-> calculate_confidence_level(weather)]
    /\ CalcUnchanged

InitCalc ==
    /\ source = [exists |-> FALSE, header_ok |-> TRUE, rows |-> <<>>]
    /\ timetable_cache = EmptyCache
    /\ clock = At(7, 0)
    /\ weather \in CalcWeather
    /\ ret = NoCall
    /\ request = NoRequest

NextCalc == CalculateDelayBuffer \/ CalculateConfidenceLevel

SpecCalc == InitCalc /\ [][NextCalc]_vars

Severity(risk_level) ==
    CASE risk_level = "low" -> 1 [] risk_level = "medium" -> 2 [] risk_level = "high" -> 3

WithRain(w, r) == [w EXCEPT !.max_rainfall_1h = r]
WithRisk(w, k) == [w EXCEPT !.risk_level = k]

\* C6: the delay buffer lies in [5, 45], is non-decreasing in max_rainfall_1h
\* and non-decreasing along low -> medium -> high.
C6_DelayBufferBounded ==
    ret.op = "calculate_delay_buffer" =>
        /\ ret.result >= 5 /\ ret.result <= 45
        /\ \A r \in 0..MaxRainfall :
              r >= weather.max_rainfall_1h =>
                  calculate_delay_buffer(WithRain(weather, r)) >= ret.result
        /\ \A k \in RiskLevels :
              Severity(k) >= Severity(weather.risk_level) =>
                  calculate_delay_buffer(WithRisk(weather, k)) >= ret.result

\* the cap is reached: 5 + 15 + 10 + 20 would be 50
C6_Witness ==
    /\ ret.op = "calculate_delay_buffer"
    /\ weather.pattern_type = "heavy_rain" /\ weather.risk_level = "high"
    /\ weather.max_rainfall_1h >= 100
    /\ ret.result = 45

\* C7: the confidence lies in [0.3, 1.0], and for heavy_rain, high risk and
\* max_rainfall_1h = 50 it is exactly 0.3.
C7_ConfidenceBounded ==
    ret.op = "calculate_confidence_level" =>
        /\ ret.result >= 300 /\ ret.result <= 1000
        /\ (weather.pattern_type = "heavy_rain" /\ weather.risk_level = "high"
              /\ weather.max_rainfall_1h = 500) => ret.result = 300

C7_Witness ==
    /\ ret.op = "calculate_confidence_level"
    /\ weather.pattern_type = "heavy_rain" /\ weather.risk_level = "high"
    /\ weather.max_rainfall_1h = 500
    /\ ret.result = 300

StrictInRisk ==
    \A k \in RiskLevels :
        Severity(k) > Severity(weather.risk_level) =>
            calculate_confidence_level(WithRisk(weather, k)) < ret.result

\* C8 as stated: confidence is strictly decreasing in risk severity and
\* strictly decreasing in max_rainfall_1h.
C8_ConfidenceStrictlyDecreasing ==
    ret.op = "calculate_confidence_level" =>
        /\ StrictInRisk
        /\ \A r \in 0..MaxRainfall :
              r > weather.max_rainfall_1h =>
                  calculate_confidence_level(WithRain(weather, r)) < ret.result

\* C8 (amended): confidence is strictly decreasing in risk severity; in
\* max_rainfall_1h it is non-increasing, and strictly decreasing between two
\* rainfalls of at most 10 mm/h when the confidence at the smaller one is
\* above the floor 0.3.
C8_ConfidenceDecreasing ==
    ret.op = "calculate_confidence_level" =>
        /\ StrictInRisk
        /\ \A r \in 0..MaxRainfall :
              r > weather.max_rainfall_1h =>
                  /\ calculate_confidence_level(WithRain(weather, r)) <= ret.result
                  /\ (r <= 100 /\ ret.result > 300) =>
                        calculate_confidence_level(WithRain(weather, r)) < ret.result

\* the rainfall penalty is saturated and a more severe risk exists
C8_Witness ==
    /\ ret.op = "calculate_confidence_level"
    /\ weather.max_rainfall_1h = 100
    /\ weather.risk_level = "low"
    /\ calculate_confidence_level(WithRain(weather, 200)) = ret.result

\* ------------------------------------------------- recommendation requests
\* timetable files without a malformed row, trains in file order
StrictlyLater(rows) ==
    \A i \in 1..(Len(rows) - 1) :
        parse_time(rows[i].departure_time) < parse_time(rows[i + 1].departure_time)

EngineSources ==
    { s \in Sources :
        /\ s.exists /\ s.header_ok /\ s.rows # <<>>
        /\ \A i \in 1..Len(s.rows) : ~Malformed(s.rows[i])
        /\ StrictlyLater(s.rows) }

Pattern(p, k, t, current, max_1h) ==
    [pattern_type |-> p, risk_level |-> k, rainfall_trend |-> t,
     current_rainfall |-> current, max_rainfall_1h |-> max_1h]

\* weather patterns of the shapes analyze_weather_pattern produces
\* (weather_service.py lines 140-159)
EngineWeather ==
    { Pattern("clear", "low", t, 0, 0) : t \in Trends }
    \cup { Pattern("light_rain", "medium", t, 10, 30) : t \in {"increasing", "stable"} }
    \cup { Pattern("improving", "low", "decreasing", 10, 15),
           Pattern("improving", "medium", "decreasing", 10, 30) }
    \cup { Pattern("heavy_rain", "high", t, 30, 120) : t \in Trends }

\* readings of the system clock
ClockSet == { At(7, 0), At(8, 0), At(18, 0) }

\* current_time arguments: <<>> is None
EngineNowSet == { <<>>, <<At(7, 30)>>, <<At(8, 0)>>, <<At(23, 55)>> }

\* target_arrival_time arguments: <<>> is None
EngineTargetSet == { <<>>, <<At(8, 40)>>, <<At(0, 10)>> }

\* generate_recommendation_with_weather(weather_response, weather_pattern,
\* target_arrival_time, current_time): lines 292-330
GenerateRecommendationWithWeather ==
    \E now \in EngineNowSet, target \in EngineTargetSet :
        LET current_time == IF now = <<>> THEN clock ELSE now[1]
            delay_buffer == calculate_delay_buffer(weather)
            l == load_timetable(timetable_cache, source)
            chosen == select_optimal_departure(l.entries, weather, delay_buffer,
                                               target, current_time)
        IN  /\ timetable_cache' = CacheAfter(timetable_cache, source)
            /\ ret' = IF ~l.ok
                      THEN Raised("generate_recommendation_with_weather", l)
                      ELSE IF chosen = <<>>
                      THEN [op |-> "generate_recommendation_with_weather",
                            ok |-> FALSE, error |-> "ValidationException"]
                      ELSE [op |-> "generate_recommendation_with_weather",
                            ok |-> TRUE, timetable |-> l.entries,
                            current_time |-> current_time,
                            target_arrival_time |-> target,
                            trains |-> chosen,
                            result |-> <<Recommendation(chosen[1], weather,
                                                        delay_buffer, clock)>>]
            /\ UNCHANGED <<source, clock, weather, request>>

\* generate_multiple_recommendations_with_weather(weather_response,
\* weather_pattern, count, current_time): lines 332-372
GenerateMultipleRecommendationsWithWeather ==
    \E now \in EngineNowSet, count \in 1..MaxCount :
        LET current_time == IF now = <<>> THEN clock ELSE now[1]
            delay_buffer == calculate_delay_buffer(weather)
            l == load_timetable(timetable_cache, source)
            departure_options == find_next_departures(l.entries, current_time, count)
        IN  /\ timetable_cache' = CacheAfter(timetable_cache, source)
            /\ ret' = IF ~l.ok
                      THEN Raised("generate_multiple_recommendations_with_weather", l)
                      ELSE [op |-> "generate_multiple_recommendations_with_weather",
                            ok |-> TRUE, timetable |-> l.entries,
                            current_time |-> current_time, count |-> count,
                            trains |-> departure_options,
                            result |-> [i \in 1..Len(departure_options) |->
                                Recommendation(departure_options[i], weather,
                                               delay_buffer, clock)]]
            /\ UNCHANGED <<source, clock, weather, request>>

\* get_alternative_options(weather_pattern, primary_recommendation,
\* current_time) for the recommendation just produced, with the weather
\* pattern and the current time of that request: lines 227-244
GetAlternativeOptions ==
    /\ ret.op = "generate_recommendation_with_weather" /\ ret.ok
    /\ LET l == load_timetable(timetable_cache, source)
       IN  /\ timetable_cache' = CacheAfter(timetable_cache, source)
           /\ ret' = IF ~l.ok THEN Raised("get_alternative_options", l)
                     ELSE [op |-> "get_alternative_options", ok |-> TRUE,
                           timetable |-> l.entries,
                           current_time |-> ret.current_time,
                           primary_recommendation |-> ret.result[1],
                           primary_train |-> ret.trains[1],
                           result |-> get_alternative_options(l.entries, weather,
                               ret.result[1], ret.current_time)]
    /\ UNCHANGED <<source, clock, weather, request>>

InitEngine ==
    /\ source \in EngineSources
    /\ timetable_cache = EmptyCache
    /\ clock \in ClockSet
    /\ weather \in EngineWeather
    /\ ret = NoCall
    /\ request = NoRequest

NextEngine ==
    \/ GenerateRecommendationWithWeather
    \/ GenerateMultipleRecommendationsWithWeather
    \/ GetAlternativeOptions

SpecEngine == InitEngine /\ [][NextEngine]_vars

Recommended ==
    /\ ret.op \in {"generate_recommendation_with_weather",
                   "generate_multiple_recommendations_with_weather"}
    /\ ret.ok

\* C1: recommended_departure never precedes the caller's now: it is now when
\* train departure minus the walk offset would precede now, and train
\* departure minus the offset otherwise.
C1_DepartureNotBeforeNow ==
    Recommended =>
        \A i \in 1..Len(ret.result) :
            LET now == ret.current_time
                planned == combine(DayOf(now), parse_time(ret.trains[i].departure_time))
                               - walk_to_station_minutes
                recommended == ret.result[i].recommended_departure
            IN  /\ parse_time(recommended) >= TimeOfDay(now)
                /\ recommended = IF planned < now THEN strftime(now)
                                 ELSE strftime(planned)

\* C9: the alternatives are the risk-scaled options without the train of the
\* primary recommendation, cut to 3: at most 3 entries, never that train.
C9_AlternativesExcludePrimary ==
    (ret.op = "get_alternative_options" /\ ret.ok) =>
        LET departure_options ==
                get_departure_options_for_weather(ret.timetable,
                    weather.risk_level, ret.current_time)
            NotPrimary(option) == option # ret.primary_train
        IN  /\ Len(ret.result) <= 3
            /\ \A i \in 1..Len(ret.result) : ret.result[i] # ret.primary_train
            /\ ret.result = Take(SelectSeq(departure_options, NotPrimary), 3)

\* ------------------------------------------------- travel time of an entry
TrainTypes ==
    { "tsukin_kaikyu", "kaisoku_kyuko", "kyuko", "kukan_kyuko", "junkyu",
      "tsukin_junkyu", "futsu", "liner", "fumei" }

Destinations == { "Yodoyabashi", "Nakanoshima", "Moriguchishi" }

\* rows with every known train type and destination, and with names the
\* tables do not have ("tokkyu" = 特急, "Demachiyanagi" = 出町柳)
EntryRows ==
    { Row(t, ty, d) : t \in { <<7, 40>>, <<23, 50>>, <<0, 5>> },
                      ty \in TrainTypes \cup { "tokkyu" },
                      d \in Destinations \cup { "Demachiyanagi" } }

\* the TimetableEntry of one row of the file: lines 37-42
BuildEntry ==
    /\ ret.op = "row"
    /\ ret' = [op |-> "entry", row |-> ret.row, result |-> EntryOf(ret.row)]
    /\ UNCHANGED <<source, timetable_cache, clock, weather, request>>

InitEntry ==
    /\ source = [exists |-> FALSE, header_ok |-> TRUE, rows |-> <<>>]
    /\ timetable_cache = EmptyCache
    /\ clock = At(7, 0)
    /\ weather = NoWeather
    /\ ret \in { [op |-> "row", row |-> r] : r \in EntryRows }
    /\ request = NoRequest

NextEntry == BuildEntry

SpecEntry == InitEntry /\ [][NextEntry]_vars

\* the largest base time of the table: the longest route
LongestBaseTime ==
    CHOOSE b \in { base_times(d) : d \in Destinations } :
        \A d \in Destinations : base_times(d) <= b

\* base minutes times speed factor (hundredths), fraction dropped
Scaled(base, factor) == (base * factor) \div 100

KnownScaling ==
    /\ ret.row.destination \in Destinations
    /\ ret.row.train_type \in TrainTypes
    => /\ ret.result.travel_minutes * 100
            <= base_times(ret.row.destination) * speed_factors(ret.row.train_type)
       /\ base_times(ret.row.destination) * speed_factors(ret.row.train_type)
            < (ret.result.travel_minutes + 1) * 100

UnknownTypeUnscaled ==
    (ret.row.train_type \notin TrainTypes /\ ret.row.destination \in Destinations)
        => ret.result.travel_minutes = base_times(ret.row.destination)

\* C11 as stated: travel_minutes is the base minutes of the destination scaled
\* by the factor of the train type; an unknown destination uses the
\* longest-route base time and an unknown train type the factor 1.0.
C11_UnknownDestinationLongest ==
    ret.op = "entry" =>
        /\ KnownScaling
        /\ UnknownTypeUnscaled
        /\ ret.row.destination \notin Destinations =>
              ret.result.travel_minutes
                  = Scaled(LongestBaseTime, speed_factors(ret.row.train_type))

\* C11 (amended): as stated, except that an unknown destination uses the base
\* time of Yodoyabashi (35 minutes), which is not the longest route (45).
C11_UnknownDestinationYodoyabashi ==
    ret.op = "entry" =>
        /\ KnownScaling
        /\ UnknownTypeUnscaled
        /\ ret.row.destination \notin Destinations =>
              /\ ret.result.travel_minutes
                    = Scaled(35, speed_factors(ret.row.train_type))
              /\ ret.result.travel_minutes
                    = estimate_travel_time(ret.row.train_type, "Yodoyabashi")

C11_Witness ==
    /\ ret.op = "entry"
    /\ ret.row.destination = "Demachiyanagi"
    /\ ret.row.train_type = "futsu"
    /\ ret.result.travel_minutes = 42

\* ------------------------------------------------- the timetable cache
\* files the cache is exercised with: none, empty, one row, two rows out of
\* order, rows with an impossible time
CacheRowSet ==
    { Row(<<7, 55>>, "junkyu", "Yodoyabashi"),
      Row(<<7, 40>>, "kyuko", "Yodoyabashi"),
      Row(<<25, 0>>, "junkyu", "Yodoyabashi") }

CacheSources ==
    { [exists |-> FALSE, header_ok |-> TRUE, rows |-> <<>>] }
    \cup { [exists |-> TRUE, header_ok |-> TRUE, rows |-> r] :
             r \in SeqsUpTo(CacheRowSet, 2) }

\* the file is rewritten, removed or created between two calls
ReplaceSource ==
    /\ source' \in CacheSources \ { source }
    /\ UNCHANGED <<timetable_cache, clock, weather, ret, request>>

InitCache ==
    /\ source \in CacheSources
    /\ timetable_cache = EmptyCache
    /\ clock = At(7, 0)
    /\ weather = NoWeather
    /\ ret = NoCall
    /\ request = NoRequest

NextCache == LoadTimetable \/ ClearCache \/ ReplaceSource

SpecCache == InitCache /\ [][NextCache]_vars

LoadStep == source' = source /\ ret'.op = "load_timetable"

RowTimes(rows) == { rows[i].departure_time : i \in 1..Len(rows) }

\* the result was read from the file as it is now
ParsedFrom(result, src) ==
    /\ src.exists
    /\ Len(result) = Len(src.rows)
    /\ RowTimes(result) = RowTimes(src.rows)
    /\ Ascending(result)

\* C12: after a successful load the sequence is sorted ascending and every
\* later load returns the same cached sequence without reading the file again,
\* whatever the file has become, until clear_cache(); the first load after a
\* clear reads the file again; a failed load leaves the cache empty, so the
\* next load reads the file again.
C12_CachedUntilCleared ==
    [][ /\ (LoadStep /\ timetable_cache.set) =>
              /\ ret'.ok /\ ret'.cached
              /\ ret'.result = timetable_cache.entries
              /\ timetable_cache' = timetable_cache
        /\ (LoadStep /\ ~timetable_cache.set /\ ret'.ok) =>
              /\ ~ret'.cached
              /\ ParsedFrom(ret'.result, source)
              /\ timetable_cache' = [set |-> TRUE, entries |-> ret'.result]
        /\ (LoadStep /\ ~timetable_cache.set /\ ~ret'.ok) =>
              /\ ~ret'.cached
              /\ timetable_cache' = EmptyCache
        /\ ret'.op = "clear_cache" => timetable_cache' = EmptyCache
        /\ source' # source => timetable_cache' = timetable_cache
        /\ timetable_cache'.set => Ascending(timetable_cache'.entries)
      ]_vars

\* a load answered from the cache although the file has since been removed
C12_Witness ==
    /\ ret.op = "load_timetable"
    /\ ret.ok /\ ret.cached
    /\ ~ret.source.exists
    /\ Len(ret.result) = 2
    /\ timetable_cache.set

\* ------------------------------------------------- choice of the candidate
SingleRecommended == ret.op = "generate_recommendation_with_weather" /\ ret.ok

\* what find_optimal_departure(target - delay_buffer, buffer_minutes=5)
\* returned for the request in ret: an index of ret.timetable, 0 for none
OptimalForTarget ==
    IF ret.target_arrival_time = <<>> THEN 0
    ELSE find_optimal_departure(ret.timetable,
             ret.target_arrival_time[1] - calculate_delay_buffer(weather), 5)

\* departure_options_for_risk(risk_level, now) for the request in ret
RiskOptions ==
    get_departure_options_for_weather(ret.timetable, weather.risk_level,
                                      ret.current_time)

\* C13: with a target arrival for which find_optimal_departure(target -
\* delay_buffer, buffer_minutes=5) returns an entry, that entry is the
\* candidate; otherwise the candidate is chosen by weather pattern among
\* departure_options_for_risk(risk_level, now).
C13_TargetFirstThenPattern ==
    SingleRecommended =>
        /\ OptimalForTarget # 0 => ret.trains[1] = ret.timetable[OptimalForTarget]
        /\ OptimalForTarget = 0 =>
              /\ RiskOptions # <<>>
              /\ \E i \in 1..Len(RiskOptions) : ret.trains[1] = RiskOptions[i]
              /\ ret.trains[1]
                    = RiskOptions[choose_best_option_by_weather(RiskOptions, weather)]

\* a target served by a train that the delay buffer alone decides, and that
\* the pattern-based choice would not have given
C13_Witness ==
    /\ SingleRecommended
    /\ OptimalForTarget # 0
    /\ calculate_delay_buffer(weather) > 0
    /\ find_optimal_departure(ret.timetable, ret.target_arrival_time[1], 5)
          # OptimalForTarget
    /\ ret.trains[1]
          # RiskOptions[choose_best_option_by_weather(RiskOptions, weather)]

\* the index of the pattern-based choice, counted from 0, for n options
PatternIndex(n) ==
    CASE weather.pattern_type = "heavy_rain" -> 0
      [] weather.pattern_type = "improving" -> Min(3, n) \div 2
      [] weather.pattern_type = "light_rain" ->
            IF weather.rainfall_trend = "increasing" THEN 0
            ELSE IF n >= 2 THEN 1 ELSE 0
      [] weather.pattern_type = "clear" -> 0

\* C14: the pattern-based choice from n >= 1 options takes index 0 for
\* heavy_rain, min(3, n) // 2 for improving, for light_rain 0 when the trend
\* is increasing and otherwise 1 if n >= 2 else 0, and 0 for clear; the index
\* is always inside the list.
C14_PatternIndex ==
    (SingleRecommended /\ OptimalForTarget = 0) =>
        /\ Len(RiskOptions) >= 1
        /\ PatternIndex(Len(RiskOptions)) < Len(RiskOptions)
        /\ ret.trains[1] = RiskOptions[PatternIndex(Len(RiskOptions)) + 1]
        /\ \A n \in 1..Len(RiskOptions) :
              LET options == Take(RiskOptions, n)
              IN  /\ PatternIndex(n) < n
                  /\ choose_best_option_by_weather(options, weather)
                        = PatternIndex(n) + 1

\* the middle of the first three of more than three options, in improving
\* weather, where the train in the middle of all options is another one
C14_Witness ==
    /\ SingleRecommended /\ OptimalForTarget = 0
    /\ weather.pattern_type = "improving"
    /\ Len(RiskOptions) > 3
    /\ ret.trains[1] = RiskOptions[2]
    /\ ret.trains[1] # RiskOptions[(Len(RiskOptions) \div 2) + 1]

\* ------------------------------------------------- weather classification
\* rainfall is in tenths of mm/h: 0.5 is 5, 1.0 is 10, 2.0 is 20, 5.0 is 50,
\* 10.0 is 100
determine_pattern_type_strict(current, max_1h, trend) ==
    IF current < 5 /\ max_1h < 10 THEN "clear"
    ELSE IF current < 20 /\ max_1h < 50
         THEN IF trend = "decreasing" THEN "improving" ELSE "light_rain"
    ELSE "heavy_rain"

\* WeatherService._determine_pattern_type: lines 140-150
determine_pattern_type(current, max_1h, trend) ==
    IF current <= 5 /\ max_1h <= 10 THEN "clear"
    ELSE IF current <= 20 /\ max_1h <= 50
         THEN IF trend = "decreasing" THEN "improving" ELSE "light_rain"
    ELSE "heavy_rain"

determine_risk_level_by_rainfall(current, max_1h, pattern_type) ==
    IF pattern_type = "heavy_rain" \/ max_1h > 20 THEN "high"
    ELSE IF pattern_type = "light_rain" \/ current > 5 THEN "medium"
    ELSE "low"

\* WeatherService._determine_risk_level: lines 152-159
determine_risk_level(current, max_1h, pattern_type) ==
    IF pattern_type = "heavy_rain" \/ max_1h > 100 THEN "high"
    ELSE IF pattern_type = "light_rain" \/ max_1h > 20 THEN "medium"
    ELSE "low"

\* the pattern of lines 108-120 for a current rainfall, a maximum and a trend
Classified(current, max_1h, trend) ==
    LET pattern_type == determine_pattern_type(current, max_1h, trend)
    IN  Pattern(pattern_type,
                determine_risk_level(current, max_1h, pattern_type),
                trend, current, max_1h)

\* rainfalls on, just below and just above every threshold
CurrentRainfalls == { 0, 5, 6, 20, 21, 30 }
MaxRainfalls == { 0, 10, 11, 20, 21, 50, 51, 100, 101, 120 }

DeterminePattern ==
    /\ ret.op = "rainfall"
    /\ ret' = [op |-> "determine_pattern", current |-> ret.current,
               max_1h |-> ret.max_1h, trend |-> ret.trend,
               result |-> Classified(ret.current, ret.max_1h, ret.trend)]
    /\ UNCHANGED <<source, timetable_cache, clock, weather, request>>

InitClassify ==
    /\ source = [exists |-> FALSE, header_ok |-> TRUE, rows |-> <<>>]
    /\ timetable_cache = EmptyCache
    /\ clock = At(7, 0)
    /\ weather = NoWeather
    /\ ret \in { [op |-> "rainfall", current |-> c, max_1h |-> m, trend |-> t] :
                    c \in CurrentRainfalls, m \in MaxRainfalls, t \in Trends }
    /\ request = NoRequest

NextClassify == DeterminePattern

SpecClassify == InitClassify /\ [][NextClassify]_vars

\* C15: pattern_type is clear iff current <= 0.5 and max_1h <= 1.0; otherwise,
\* within current <= 2.0 and max_1h <= 5.0, improving when the trend is
\* decreasing and light_rain when it is not; heavy_rain beyond.  risk_level is
\* high iff the pattern is heavy_rain or max_1h > 10.0, else medium iff the
\* pattern is light_rain or max_1h > 2.0, else low.  (0.0, 0.0) is clear/low
\* and (3.0, 12.0) is heavy_rain/high.
C15_Classification ==
    ret.op = "determine_pattern" =>
        LET c == ret.current
            m == ret.max_1h
            p == ret.result.pattern_type
            k == ret.result.risk_level
            calm == c <= 5 /\ m <= 10
            mild == c <= 20 /\ m <= 50
        IN  /\ p = "clear" <=> calm
            /\ p = "improving" <=> (~calm /\ mild /\ ret.trend = "decreasing")
            /\ p = "light_rain" <=> (~calm /\ mild /\ ret.trend # "decreasing")
            /\ p = "heavy_rain" <=> ~mild
            /\ k = "high" <=> (p = "heavy_rain" \/ m > 100)
            /\ k = "medium" <=> (k # "high" /\ (p = "light_rain" \/ m > 20))
            /\ k = "low" <=> (k # "high" /\ p # "light_rain" /\ m <= 20)
            /\ (c = 0 /\ m = 0) => (p = "clear" /\ k = "low")
            /\ (c = 30 /\ m = 120) => (p = "heavy_rain" /\ k = "high")

\* the two examples of the claim and a pattern on the thresholds
C15_Witness ==
    /\ ret.op = "determine_pattern"
    /\ ret.current = 5 /\ ret.max_1h = 10
    /\ ret.result.pattern_type = "clear"
    /\ Classified(0, 0, "stable").risk_level = "low"
    /\ Classified(30, 120, "stable").pattern_type = "heavy_rain"

\* ------------------------------------------------- weather analysis
MaxForecast == 7

\* one entry of WeatherResponse.weather_data
WeatherData(type, rainfall) == [type |-> type, rainfall |-> rainfall]

RECURSIVE SumRainfall(_)
SumRainfall(data) ==
    IF data = <<>> THEN 0
    ELSE data[1].rainfall + SumRainfall(Tail(data))

RECURSIVE MaxRainfallOf(_)
\* max([...], default=0.0): line 103
MaxRainfallOf(data) ==
    IF data = <<>> THEN 0
    ELSE Max(data[1].rainfall, MaxRainfallOf(Tail(data)))

\* sum_a / n_a > sum_b / n_b + 0.5 over the rationals, sums in tenths
ExceedsExactly(sum_a, n_a, sum_b, n_b) ==
    sum_a * n_b > sum_b * n_a + 5 * n_a * n_b

\* avg_a > avg_b + threshold as lines 127-134 evaluate it, in IEEE-754
\* doubles: sums of multiples of 0.5 are exact and a quotient by 3 is rounded
\* to nearest.  For rainfalls of 0.0, 0.5 and 1.0 the rounded comparison
\* differs from the exact one for the sums 2.5 and 1.0 of three entries only:
\* 2.5 / 3 > 1.0 / 3 + 0.5 evaluates to True.
Exceeds(sum_a, n_a, sum_b, n_b) ==
    \/ ExceedsExactly(sum_a, n_a, sum_b, n_b)
    \/ (n_a = 3 /\ n_b = 3 /\ sum_a = 25 /\ sum_b = 10)

\* WeatherService._analyze_rainfall_trend: lines 122-138
analyze_rainfall_trend(forecast_data) ==
    IF Len(forecast_data) < 2 THEN "stable"
    ELSE LET n == Len(forecast_data)
             half == n \div 2
             first_half == SumRainfall(SubSeq(forecast_data, 1, half))
             second_half == SumRainfall(SubSeq(forecast_data, half + 1, n))
         IN  IF Exceeds(second_half, n - half, first_half, half) THEN "increasing"
             ELSE IF Exceeds(first_half, half, second_half, n - half)
                  THEN "decreasing"
             ELSE "stable"

IsObservation(w) == w.type = "observation"
IsForecast(w) == w.type = "forecast"

\* WeatherService.analyze_weather_pattern on non-empty data: lines 97-120
analyze_weather_pattern(weather_data) ==
    LET current_data == SelectSeq(weather_data, IsObservation)
        current_rainfall ==
            IF current_data # <<>> THEN current_data[Len(current_data)].rainfall
            ELSE 0
        forecast_data == SelectSeq(weather_data, IsForecast)
        max_rainfall_1h == MaxRainfallOf(Take(forecast_data, 6))
        rainfall_trend == analyze_rainfall_trend(Take(forecast_data, 6))
    IN  Classified(current_rainfall, max_rainfall_1h, rainfall_trend)

\* rainfalls of 0.0, 0.5 and 1.0 mm/h
RainfallValues == { 0, 5, 10 }

\* responses with at most one observation and up to MaxForecast forecasts
WeatherResponses ==
    { obs \o fc :
        obs \in { <<>>, <<WeatherData("observation", 10)>> },
        fc \in SeqsUpTo({ WeatherData("forecast", r) : r \in RainfallValues },
                        MaxForecast) }

\* analyze_weather_pattern(weather_response): lines 92-120
AnalyzeWeatherPattern ==
    /\ ret.op = "weather_response"
    /\ ret' = IF ret.weather_data = <<>>
              THEN [op |-> "analyze_weather_pattern", ok |-> FALSE,
                    error |-> "ValidationException"]
              ELSE [op |-> "analyze_weather_pattern", ok |-> TRUE,
                    weather_data |-> ret.weather_data,
                    result |-> analyze_weather_pattern(ret.weather_data)]
    /\ UNCHANGED <<source, timetable_cache, clock, weather, request>>

InitAnalyze ==
    /\ source = [exists |-> FALSE, header_ok |-> TRUE, rows |-> <<>>]
    /\ timetable_cache = EmptyCache
    /\ clock = At(7, 0)
    /\ weather = NoWeather
    /\ ret \in { [op |-> "weather_response", weather_data |-> d] :
                    d \in WeatherResponses }
    /\ request = NoRequest

NextAnalyze == AnalyzeWeatherPattern

SpecAnalyze == InitAnalyze /\ [][NextAnalyze]_vars

Analyzed == ret.op = "analyze_weather_pattern" /\ ret.ok

\* the first six forecasts of the response analysed
ForecastWindow == Take(SelectSeq(ret.weather_data, IsForecast), 6)

\* C16: the trend is computed from the first 6 forecast entries only; the
\* window is split in half; the trend is increasing if the mean of the second
\* half exceeds the mean of the first half by more than 0.5 mm/h, decreasing
\* if the first exceeds the second by more than 0.5 mm/h, stable otherwise,
\* and stable with fewer than 2 forecast entries.
C16_TrendOfFirstSix ==
    Analyzed =>
        LET n == Len(ForecastWindow)
            half == n \div 2
            first == SumRainfall(SubSeq(ForecastWindow, 1, half))
            second == SumRainfall(SubSeq(ForecastWindow, half + 1, n))
            trend == ret.result.rainfall_trend
        IN  /\ n < 2 => trend = "stable"
            /\ n >= 2 =>
                  /\ trend = "increasing"
                        <=> ExceedsExactly(second, n - half, first, half)
                  /\ trend = "decreasing"
                        <=> ExceedsExactly(first, half, second, n - half)
                  /\ trend \in Trends

\* ------------------------------------------------- options by risk level
\* a timetable long enough for every prefix length to cut something off
OptionRows ==
    << Row(<<7, 40>>, "kyuko", "Yodoyabashi"),
       Row(<<7, 55>>, "junkyu", "Yodoyabashi"),
       Row(<<8, 10>>, "futsu", "Nakanoshima"),
       Row(<<23, 20>>, "kyuko", "Yodoyabashi"),
       Row(<<23, 50>>, "kyuko", "Yodoyabashi") >>

OptionSources ==
    { [exists |-> TRUE, header_ok |-> TRUE, rows |-> SubSeq(OptionRows, 1, k)] :
        k \in 1..Len(OptionRows) }

InitOptions ==
    /\ source \in OptionSources
    /\ timetable_cache = EmptyCache
    /\ clock = At(7, 0)
    /\ weather = NoWeather
    /\ ret = NoCall
    /\ request = NoRequest

NextOptions ==
    \/ GetDepartureOptionsForWeather
    \/ FindNextDepartures
    \/ LoadTimetable
    \/ ClearCache

SpecOptions == InitOptions /\ [][NextOptions]_vars

GotOptions == ret.op = "get_departure_options_for_weather" /\ ret.ok

\* find_next_departures(now, 10) for the call in ret
BaseOptions == find_next_departures(ret.timetable, ret.current_time, 10)

PrefixLength ==
    CASE ret.risk_level = "high" -> 3
      [] ret.risk_level = "medium" -> 5
      [] ret.risk_level = "low" -> 7

\* C17: departure_options_for_risk(risk_level, now) is a prefix of
\* find_next_departures(now, 10): its first 3 entries for high risk, 5 for
\* medium, 7 for low, and fewer only when find_next_departures returned fewer.
C17_RiskScaledPrefix ==
    GotOptions =>
        /\ Len(ret.result) = Min(PrefixLength, Len(BaseOptions))
        /\ \A i \in 1..Len(ret.result) : ret.result[i] = BaseOptions[i]

\* low risk with more than seven departures to choose from
C17_Witness ==
    /\ GotOptions
    /\ ret.risk_level = "low"
    /\ Len(BaseOptions) > 7
    /\ Len(ret.result) = 7

\* ------------------------------------------------- narrative texts
\* A text is its origin ("literal", "provider" or "simple_message"), an
\* identifier, a length in characters, the words interpolated into it and
\* what is appended to it.
Text(origin, id, length, args, suffix) ==
    [origin |-> origin, id |-> id, length |-> length, args |-> args,
     suffix |-> suffix]

\* a string literal of the source
Literal(id) == Text("literal", id, 1, <<>>, "")

\* None where a text is optional
NoText == Text("none", "None", 0, <<>>, "")

\* text produced by the narrative provider
ProviderText(id, length) == Text("provider", id, length, <<>>, "")

\* LLMAnalysis: data_models.py lines 49-54
LLMAnalysis(summary, recommendation_reason, weather_warning, additional_advice) ==
    [summary |-> summary, recommendation_reason |-> recommendation_reason,
     weather_warning |-> weather_warning, additional_advice |-> additional_advice]

\* pattern_messages.get(pattern_type, ...): lines 166-173
pattern_messages(pattern_type) ==
    CASE pattern_type = "clear" -> "seiten desu"
      [] pattern_type = "light_rain" -> "karui ame ga yoso saremasu"
      [] pattern_type = "heavy_rain" -> "tsuyoi ame ga yoso saremasu"
      [] pattern_type = "improving" -> "tenko ga kaifuku keiko desu"
      [] OTHER -> "tenko wo kakunin chu"

\* LLMFormatter.format_simple_message: lines 159-183
format_simple_message(weather_pattern, departure_recommendation) ==
    Text("simple_message", pattern_messages(weather_pattern.pattern_type), 1,
         <<departure_recommendation.recommended_departure>>
             \o (IF departure_recommendation.weather_impact
                 THEN <<departure_recommendation.delay_buffer>> ELSE <<>>),
         "")

\* LLMFormatter._create_fallback_analysis: lines 147-157
create_fallback_analysis(raw_response) ==
    LET summary ==
            IF raw_response.length > 50
            THEN [raw_response EXCEPT !.length = 50, !.suffix = "..."]
            ELSE raw_response
    IN  LLMAnalysis(
            IF summary.length = 0 THEN Literal("tenko wo koryo shita suisho jikoku")
            ELSE summary,
            Literal("genzai no tenko jokyo to kotsu jokyo wo sogoteki ni handan"),
            NoText,
            Literal("shosai na bunseki kekka no hyoji ni mondai"))

\* the fallback of get_recommendation: main.py lines 64-76
simple_message_analysis(weather_pattern, departure_recommendation) ==
    LLMAnalysis(Literal("tenko wo koryo shita suisho jikoku"),
                format_simple_message(weather_pattern, departure_recommendation),
                NoText, NoText)

\* What one call of the narrative provider gives: an exception, or a text
\* that is not JSON, or JSON that is an object (with all four fields, with
\* none, or with a summary that is not a string) or an array.
ProviderOutcomes ==
    { [kind |-> "raise", raw |-> NoText] }
    \cup { [kind |-> "not_json", raw |-> ProviderText("apology", n)] :
             n \in { 0, 20, 80 } }
    \cup { [kind |-> k, raw |-> ProviderText("json", 80)] :
             k \in { "object", "empty_object", "ill_typed_object", "array" } }

\* LLMFormatter._parse_llm_response (lines 120-145): the analysis, as a
\* one-element sequence, or <<>> when an exception leaves the function
\* (AttributeError for data.get on an array, a validation error for a
\* summary that is not a string)
parse_llm_response(outcome) ==
    CASE outcome.kind = "object" ->
            << LLMAnalysis(ProviderText("summary", 40), ProviderText("reason", 80),
                           ProviderText("warning", 60), ProviderText("advice", 60)) >>
      [] outcome.kind = "empty_object" ->
            << LLMAnalysis(Literal("genzai no jokyo wo bunseki chu"),
                           Literal("saiteki na jikoku wo keisan"), NoText, NoText) >>
      [] outcome.kind = "not_json" -> << create_fallback_analysis(outcome.raw) >>
      [] OTHER -> <<>>

\* one attempt of format_recommendation (lines 39-54): the analysis, or <<>>
\* when LLMException is raised
format_attempt(outcome) ==
    IF outcome.kind = "raise" THEN <<>> ELSE parse_llm_response(outcome)

\* ------------------------------------------------- one recommendation request
\* attempts of a retried call: stop_after_attempt(3)
max_attempts == 3

\* timetable files of the application: two trains, no file, an impossible time
AppSources ==
    { [exists |-> TRUE, header_ok |-> TRUE,
       rows |-> << Row(<<7, 40>>, "kyuko", "Yodoyabashi"),
                   Row(<<7, 55>>, "junkyu", "Yodoyabashi") >>],
      [exists |-> FALSE, header_ok |-> TRUE, rows |-> <<>>],
      [exists |-> TRUE, header_ok |-> TRUE,
       rows |-> << Row(<<25, 0>>, "junkyu", "Yodoyabashi") >>] }

\* weather responses the provider may return: no data, dry, light rain,
\* rain easing off, heavy rain
AppResponses ==
    { <<>>,
      << WeatherData("observation", 0), WeatherData("forecast", 0),
         WeatherData("forecast", 0) >>,
      << WeatherData("observation", 10), WeatherData("forecast", 30),
         WeatherData("forecast", 30) >>,
      << WeatherData("observation", 10), WeatherData("forecast", 30),
         WeatherData("forecast", 10) >>,
      << WeatherData("observation", 30), WeatherData("forecast", 120),
         WeatherData("forecast", 120) >> }

\* the stage of get_recommendation a position belongs to
StageOf(pc) ==
    CASE pc = "fetch" -> "weather"
      [] pc = "recommend" -> "recommendation"
      [] pc = "format" -> "narrative"

next_stage_ignoring_failure(pc, succeeded) ==
    CASE pc = "fetch" -> "recommend"
      [] pc = "recommend" -> "format"
      [] pc = "format" -> "done"

\* where get_recommendation goes after a stage: the statements of lines 51-82
\* in sequence, the handler of lines 84-86 for an exception of the first two
\* stages, the handler of lines 64-76 for one of the third
next_stage(pc, succeeded) ==
    CASE pc = "fetch" -> IF succeeded THEN "recommend" ELSE "failed"
      [] pc = "recommend" -> IF succeeded THEN "format" ELSE "failed"
      [] pc = "format" -> "done"

\* the request after the stage at request.pc has ended
AfterStage(succeeded) ==
    LET pc == next_stage(request.pc, succeeded)
    IN  [request EXCEPT
            !.pc = pc,
            !.attempt = 0,
            !.stages = IF pc \in {"recommend", "format"}
                       THEN Append(@, StageOf(pc)) ELSE @,
            !.errors = IF succeeded \/ request.pc = "format" THEN @
                       ELSE Append(@, "KitakuException")]

\* raise KitakuException: main.py line 86
RaiseToCaller == [op |-> "get_recommendation", ok |-> FALSE,
                  error |-> "KitakuException"]

\* the request as get_recommendation or get_multiple_recommendations begins:
\* nothing fetched, nothing computed, no attempt made
NewRequest(mode, target_arrival_time, count) ==
    [pc |-> "fetch", mode |-> mode, target_arrival_time |-> target_arrival_time,
     count |-> count, attempt |-> 0, stages |-> <<"weather">>, errors |-> <<>>,
     recommendation |-> <<>>,
     narrative |-> [kind |-> "none", raw |-> NoText],
     fetch_log |-> <<>>, format_log |-> <<>>]

retry_again_until_success(succeeded, attempt) == ~succeeded

\* stop_after_attempt(3): another attempt follows a failed one unless it was
\* the third (weather_service.py lines 26-29, llm_formatter.py lines 28-31)
retry_again(succeeded, attempt) == ~succeeded /\ attempt + 1 < max_attempts

\* the log of attempts after one more
Logged(log, succeeded) == Append(log, IF succeeded THEN "ok" ELSE "failed")

\* get_recommendation(target_arrival_time=...) is called: lines 33-48
GetRecommendation ==
    /\ request.pc \in {"idle", "done", "failed"}
    /\ \E target \in EngineTargetSet :
          request' = NewRequest("single", target, 0)
    /\ weather' = NoWeather
    /\ ret' = NoCall
    /\ UNCHANGED <<source, timetable_cache, clock>>

\* one attempt of fetch_weather_data (weather_service.py lines 26-64); the
\* response of a successful attempt is analysed at once (main.py lines 51-52)
FetchWeatherData ==
    /\ request.pc = "fetch"
    /\ \E succeeded \in BOOLEAN, weather_data \in AppResponses :
          IF retry_again(succeeded, request.attempt)
          THEN /\ request' = [request EXCEPT
                                 !.attempt = @ + 1,
                                 !.fetch_log = Logged(@, succeeded)]
               /\ UNCHANGED <<weather, ret>>
          ELSE LET analysed == succeeded /\ weather_data # <<>>
               IN  /\ request' = [AfterStage(analysed) EXCEPT
                                     !.fetch_log = Logged(@, succeeded)]
                   /\ weather' = IF analysed THEN analyze_weather_pattern(weather_data)
                                 ELSE weather
                   /\ ret' = IF analysed THEN ret ELSE RaiseToCaller
    /\ UNCHANGED <<source, timetable_cache, clock>>

\* generate_recommendation_with_weather(weather_response, weather_pattern,
\* target_arrival_time): main.py lines 55-57
ComputeRecommendation ==
    /\ request.pc = "recommend" /\ request.mode = "single"
    /\ LET delay_buffer == calculate_delay_buffer(weather)
           l == load_timetable(timetable_cache, source)
           chosen == IF l.ok
                     THEN select_optimal_departure(l.entries, weather, delay_buffer,
                              request.target_arrival_time, clock)
                     ELSE <<>>
           succeeded == chosen # <<>>
       IN  /\ timetable_cache' = CacheAfter(timetable_cache, source)
           /\ request' = [AfterStage(succeeded) EXCEPT
                 !.recommendation =
                     IF succeeded
                     THEN <<Recommendation(chosen[1], weather, delay_buffer, clock)>>
                     ELSE <<>>]
           /\ ret' = IF succeeded THEN ret ELSE RaiseToCaller
    /\ UNCHANGED <<source, clock, weather>>

\* one attempt of format_recommendation (llm_formatter.py lines 28-54); after
\* an analysis or the last failed attempt get_recommendation returns
\* (main.py lines 60-82)
FormatRecommendation ==
    /\ request.pc = "format" /\ request.mode = "single"
    /\ \E outcome \in ProviderOutcomes :
          LET analysis == format_attempt(outcome)
          IN  IF retry_again(analysis # <<>>, request.attempt)
              THEN /\ request' = [request EXCEPT
                                     !.attempt = @ + 1,
                                     !.format_log = Logged(@, FALSE)]
                   /\ ret' = ret
              ELSE /\ request' = [AfterStage(analysis # <<>>) EXCEPT
                                     !.narrative = outcome,
                                     !.format_log = Logged(@, analysis # <<>>)]
                   /\ ret' = [op |-> "get_recommendation", ok |-> TRUE,
                              result |->
                                [departure_recommendation |-> request.recommendation[1],
                                 weather_pattern |-> weather,
                                 llm_analysis |->
                                    IF analysis # <<>> THEN analysis[1]
                                    ELSE simple_message_analysis(weather,
                                             request.recommendation[1])]]
    /\ UNCHANGED <<source, timetable_cache, clock, weather>>

InitApp ==
    /\ source \in AppSources
    /\ timetable_cache = EmptyCache
    /\ clock = At(7, 0)
    /\ weather = NoWeather
    /\ ret = NoCall
    /\ request = NoRequest

NextApp ==
    \/ GetRecommendation
    \/ FetchWeatherData
    \/ ComputeRecommendation
    \/ FormatRecommendation

SpecApp == InitApp /\ [][NextApp]_vars

Stages == <<"weather", "recommendation", "narrative">>

Started(stage) ==
    /\ request.pc # "idle"
    /\ \E i \in 1..Len(request.stages) : request.stages[i] = stage

Returned == request.pc = "done"

\* the four texts of an analysis
TextsOf(analysis) ==
    { analysis.summary, analysis.recommendation_reason,
      analysis.weather_warning, analysis.additional_advice }

\* nothing in the analysis was written by the provider
Deterministic(analysis) == \A t \in TextsOf(analysis) : t.origin # "provider"

\* the provider failed: it raised on the last attempt, or its response was
\* not JSON, not an object or ill-typed
ProviderFailed ==
    request.narrative.kind \in {"raise", "not_json", "array", "ill_typed_object"}

\* C18: when the weather stage and the recommendation stage have succeeded,
\* the request always ends with a KitakuRecommendation carrying narrative
\* text: every failure of the narrative provider (exception, exhausted
\* retries, unparseable or ill-typed response) is swallowed and replaced by
\* the deterministic formatter's text, never surfaced to the caller.
C18_NarrativeFailureSwallowed ==
    /\ Started("narrative") =>
          /\ request.pc \in {"format", "done"}
          /\ request.errors = <<>>
    /\ Returned =>
          /\ ret.op = "get_recommendation" /\ ret.ok
          /\ ret.result.departure_recommendation = request.recommendation[1]
          /\ ret.result.llm_analysis.summary # NoText
          /\ ret.result.llm_analysis.recommendation_reason # NoText
    /\ (Returned /\ ProviderFailed) => Deterministic(ret.result.llm_analysis)

\* C19: when the provider returns text that is not JSON, the narrative is the
\* deterministic fallback template (fixed text keyed by pattern_type, plus the
\* buffer-minutes clause when weather_impact is true), independent of the
\* provider's raw text, and nothing is raised to the caller.
C19_NonJsonGivesTemplate ==
    (Returned /\ request.narrative.kind = "not_json") =>
        /\ ret.op = "get_recommendation" /\ ret.ok
        /\ request.errors = <<>>
        /\ Deterministic(ret.result.llm_analysis)
        /\ \E t \in TextsOf(ret.result.llm_analysis) :
              t = format_simple_message(ret.result.weather_pattern,
                                        ret.result.departure_recommendation)

\* C20: the stages run in the order weather, recommendation, narrative, each
\* after the one before it has succeeded; when the weather stage or the
\* timetable stage fails the request ends with a single error, no later stage
\* is started and no recommendation object is returned.
C20_StagesInOrderOrAbort ==
    request.pc # "idle" =>
        /\ \E n \in 1..Len(Stages) : request.stages = SubSeq(Stages, 1, n)
        /\ request.pc \in {"fetch", "recommend", "format"} =>
              /\ request.stages[Len(request.stages)] = StageOf(request.pc)
              /\ request.errors = <<>>
              /\ ret = NoCall
        /\ Started("recommendation") => weather # NoWeather
        /\ Started("narrative") => request.recommendation # <<>>
        /\ request.errors # <<>> =>
              /\ request.pc = "failed"
              /\ Len(request.errors) = 1
              /\ ~Started("narrative")
              /\ weather = NoWeather => ~Started("recommendation")
              /\ request.recommendation = <<>>
              /\ ret = RaiseToCaller
        /\ request.pc = "failed" => request.errors # <<>>
        /\ request.pc = "done" =>
              /\ request.stages = Stages
              /\ ret.op = "get_recommendation" /\ ret.ok

\* the timetable stage failed after the weather stage had succeeded
C20_Witness ==
    /\ request.pc = "failed"
    /\ request.stages = <<"weather", "recommendation">>
    /\ weather # NoWeather
    /\ ret = RaiseToCaller

\* ------------------------------------------------- a batch of recommendations
generate_multiple_recommendations_with_weather_reranked(timetable, weather_pattern, count, system_clock) ==
    LET delay_buffer == calculate_delay_buffer(weather_pattern)
        departure_options == find_next_departures(timetable, system_clock, count)
        n == Len(departure_options)
    IN  [i \in 1..n |->
            Recommendation(departure_options[n + 1 - i], weather_pattern,
                           delay_buffer, system_clock)]

\* RecommendationEngine.generate_multiple_recommendations_with_weather
\* (lines 332-372) on a loaded timetable, without current_time: now is the
\* system clock
generate_multiple_recommendations_with_weather(timetable, weather_pattern, count, system_clock) ==
    LET delay_buffer == calculate_delay_buffer(weather_pattern)
        departure_options == find_next_departures(timetable, system_clock, count)
    IN  [i \in 1..Len(departure_options) |->
            Recommendation(departure_options[i], weather_pattern,
                           delay_buffer, system_clock)]

\* the analysis of every recommendation after the first: main.py lines 226-234
alternative_analysis(i) ==
    LLMAnalysis(Text("literal", "sentakushi: tenko wo koryo shita daitaian", 1,
                     <<i>>, ""),
                Literal("tsugi no shuppatsu option desu"), NoText, NoText)

\* the list get_multiple_recommendations returns: main.py lines 205-244
KitakuRecommendations(departure_recommendations, weather_pattern, first_analysis) ==
    [i \in 1..Len(departure_recommendations) |->
        [departure_recommendation |-> departure_recommendations[i],
         weather_pattern |-> weather_pattern,
         llm_analysis |-> IF i = 1 THEN first_analysis
                          ELSE alternative_analysis(i)]]

\* get_multiple_recommendations(count=...) is called: main.py lines 179-195
GetMultipleRecommendations ==
    /\ request.pc \in {"idle", "done", "failed"}
    /\ \E count \in 0..MaxCount :
          request' = NewRequest("batch", <<>>, count)
    /\ weather' = NoWeather
    /\ ret' = NoCall
    /\ UNCHANGED <<source, timetable_cache, clock>>

\* generate_multiple_recommendations_with_weather(weather_response,
\* weather_pattern, count): main.py lines 201-203; an empty list is returned
\* at once (lines 205-207, 244)
ComputeMultipleRecommendations ==
    /\ request.pc = "recommend" /\ request.mode = "batch"
    /\ LET l == load_timetable(timetable_cache, source)
           recommendations ==
               IF l.ok
               THEN generate_multiple_recommendations_with_weather(
                        l.entries, weather, request.count, clock)
               ELSE <<>>
           after == AfterStage(l.ok)
       IN  /\ timetable_cache' = CacheAfter(timetable_cache, source)
           /\ request' = IF l.ok /\ recommendations = <<>>
                         THEN [request EXCEPT !.pc = "done"]
                         ELSE [after EXCEPT !.recommendation = recommendations]
           /\ ret' = IF ~l.ok THEN RaiseToCaller
                     ELSE IF recommendations = <<>>
                     THEN [op |-> "get_multiple_recommendations", ok |-> TRUE,
                           result |-> <<>>]
                     ELSE ret
    /\ UNCHANGED <<source, clock, weather>>

\* one attempt of format_recommendation for the first recommendation
\* (main.py lines 209-225); after an analysis or the last failed attempt the
\* list is completed and returned (lines 226-244)
FormatFirstRecommendation ==
    /\ request.pc = "format" /\ request.mode = "batch"
    /\ \E outcome \in ProviderOutcomes :
          LET analysis == format_attempt(outcome)
          IN  IF retry_again(analysis # <<>>, request.attempt)
              THEN /\ request' = [request EXCEPT
                                     !.attempt = @ + 1,
                                     !.format_log = Logged(@, FALSE)]
                   /\ ret' = ret
              ELSE /\ request' = [AfterStage(analysis # <<>>) EXCEPT
                                     !.narrative = outcome,
                                     !.format_log = Logged(@, analysis # <<>>)]
                   /\ ret' = [op |-> "get_multiple_recommendations", ok |-> TRUE,
                              result |-> KitakuRecommendations(
                                  request.recommendation, weather,
                                  IF analysis # <<>> THEN analysis[1]
                                  ELSE simple_message_analysis(weather,
                                           request.recommendation[1]))]
    /\ UNCHANGED <<source, timetable_cache, clock, weather>>

InitBatch ==
    /\ source \in AppSources
    /\ timetable_cache = EmptyCache
    /\ clock \in { At(7, 0), At(7, 50) }
    /\ weather = NoWeather
    /\ ret = NoCall
    /\ request = NoRequest

NextBatch ==
    \/ GetMultipleRecommendations
    \/ FetchWeatherData
    \/ ComputeMultipleRecommendations
    \/ FormatFirstRecommendation

SpecBatch == InitBatch /\ [][NextBatch]_vars

\* the number of successful attempts in a log
RECURSIVE Successes(_)
Successes(log) ==
    IF log = <<>> THEN 0
    ELSE (IF log[1] = "ok" THEN 1 ELSE 0) + Successes(Tail(log))

BatchReturned == ret.op = "get_multiple_recommendations" /\ ret.ok

\* the candidates of the batch in ret: find_next_departures(now, count)
BatchCandidates ==
    find_next_departures(timetable_cache.entries, clock, request.count)

\* C21: a batch request makes exactly one successful weather fetch whatever
\* the number of candidates, and returns one DepartureRecommendation per entry
\* of find_next_departures(now, count), in that order, all with the same
\* delay_buffer, confidence and weather_impact, derived from the one pattern.
C21_BatchOneFetch ==
    BatchReturned =>
        /\ Successes(request.fetch_log) = 1
        /\ Len(ret.result) = Len(BatchCandidates)
        /\ \A i \in 1..Len(ret.result) :
              LET r == ret.result[i].departure_recommendation
                  e == BatchCandidates[i]
              IN  /\ r.arrival_time = strftime(calculate_arrival_time(e))
                  /\ r.recommended_departure
                        = calculate_departure_with_walk_time(e.departure_time, clock)
                  /\ r.delay_buffer = calculate_delay_buffer(weather)
                  /\ r.confidence_level = calculate_confidence_level(weather)
                  /\ r.weather_impact = has_weather_impact(weather)
                  /\ ret.result[i].weather_pattern = weather
        /\ \A i, j \in 1..Len(ret.result) :
              LET a == ret.result[i].departure_recommendation
                  b == ret.result[j].departure_recommendation
              IN  /\ a.delay_buffer = b.delay_buffer
                  /\ a.confidence_level = b.confidence_level
                  /\ a.weather_impact = b.weather_impact

\* four candidates in rain, two of today and two of tomorrow, after a fetch
\* that failed twice before it succeeded
C21_Witness ==
    /\ BatchReturned
    /\ Len(ret.result) = 4
    /\ request.fetch_log = <<"failed", "failed", "ok">>
    /\ weather.pattern_type = "heavy_rain"
    /\ ret.result[1].departure_recommendation.arrival_time
          # ret.result[2].departure_recommendation.arrival_time

\* ------------------------------------------------- bounded retries
\* a log of one retried call: failed attempts, then at most one success
FailuresThenSuccess(log) ==
    \A i \in 1..Len(log) : log[i] = "ok" => i = Len(log)

AllFailed(log) == \A i \in 1..Len(log) : log[i] = "failed"

\* the call with this log is over and its caller has its result or failure
CallOver(log) == log # <<>> /\ (log[Len(log)] = "ok" \/ Len(log) = 3)

\* C22: a call of the weather fetch or of the narrative formatting makes at
\* most 3 attempts, ends with the first successful one, and reports failure
\* to its caller only after the third consecutive failed attempt; the stages
\* after it see the final success or failure only.
C22_AtMostThreeAttempts ==
    request.pc # "idle" =>
        /\ Len(request.fetch_log) <= 3 /\ Len(request.format_log) <= 3
        /\ FailuresThenSuccess(request.fetch_log)
        /\ FailuresThenSuccess(request.format_log)
        /\ request.pc = "fetch" =>
              /\ AllFailed(request.fetch_log)
              /\ Len(request.fetch_log) < 3
              /\ request.errors = <<>> /\ ret = NoCall
        /\ request.pc # "fetch" => CallOver(request.fetch_log)
        /\ request.pc = "format" =>
              /\ AllFailed(request.format_log)
              /\ Len(request.format_log) < 3
              /\ ret = NoCall
        /\ Started("recommendation") => Successes(request.fetch_log) = 1
        /\ (request.pc = "failed" /\ ~Started("recommendation")) =>
              \/ request.fetch_log = <<"failed", "failed", "failed">>
              \/ (Successes(request.fetch_log) = 1 /\ weather = NoWeather)
        /\ request.pc = "done" =>
              /\ CallOver(request.format_log)
              /\ AllFailed(request.format_log) =>
                    ret.result.llm_analysis
                        = simple_message_analysis(weather, request.recommendation[1])

\* both calls succeeded on their third attempt
C22_Witness ==
    /\ request.pc = "done"
    /\ request.fetch_log = <<"failed", "failed", "ok">>
    /\ request.format_log = <<"failed", "failed", "ok">>
    /\ ret.ok

\* ------------------------------------------------- the train can be caught
\* C23: when a target arrival is given and the candidate comes from
\* find_optimal_departure, the train can still be caught: its departure
\* time-of-day is at or after now + the walk-to-station offset.
C23_OptimalTrainCatchable ==
    (SingleRecommended /\ OptimalForTarget # 0) =>
        Catchable(parse_time(ret.trains[1].departure_time),
                  TimeOfDay(ret.current_time + walk_to_station_minutes))

\* ------------------------------------------------- repeated departures
\* no entry occurs twice in the sequence
PairwiseDistinct(entries) ==
    \A i, j \in 1..Len(entries) : i # j => entries[i] # entries[j]

\* C24 as stated: for a timetable of pairwise distinct entries,
\* find_next_departures(now, count) with count >= 1, also a count larger than
\* the timetable, never returns the same entry twice, and returns exactly
\* count entries whenever the timetable has at least count entries.
C24_NeverRepeats ==
    (FoundNext /\ PairwiseDistinct(ret.timetable) /\ ret.count >= 1) =>
        /\ PairwiseDistinct(ret.result)
        /\ Len(ret.timetable) >= ret.count => Len(ret.result) = ret.count

\* C24 (amended): for a timetable of pairwise distinct entries and
\* 1 <= count <= the number of entries, find_next_departures(now, count)
\* returns exactly count entries and none of them twice; with a larger count
\* the trains of tomorrow repeat trains of today whenever the result is
\* longer than the timetable.
C24_NoRepeatWithinTimetable ==
    (FoundNext /\ PairwiseDistinct(ret.timetable) /\ ret.count >= 1) =>
        /\ Len(ret.timetable) >= ret.count =>
              /\ Len(ret.result) = ret.count
              /\ PairwiseDistinct(ret.result)
        /\ Len(ret.result) <= Len(ret.timetable) => PairwiseDistinct(ret.result)
        /\ Len(ret.result) > Len(ret.timetable) => ~PairwiseDistinct(ret.result)

\* as many trains asked for as the timetable has, the last one of tomorrow
C24_Witness ==
    /\ FoundNext /\ PairwiseDistinct(ret.timetable)
    /\ ret.count = 3 /\ Len(ret.timetable) = 3
    /\ Len(ret.result) = 3
    /\ ret.result[3] = ret.timetable[1]
    /\ ret.result[1] = ret.timetable[2]

\* ------------------------------------------------- options never run out
\* no train of the timetable can be caught today
NoneLeftToday(timetable, now) ==
    SelectCatchable(timetable, TimeOfDay(now + walk_to_station_minutes)) = <<>>

\* C25: for a successfully loaded timetable, any time of day now and any risk
\* level, departure_options_for_risk returns a non-empty list, starting with
\* the first departure of the timetable when no train remains today, so the
\* choice of a candidate never fails for want of a departure.
C25_OptionsNeverEmpty ==
    GotOptions =>
        /\ ret.result # <<>>
        /\ NoneLeftToday(ret.timetable, ret.current_time) =>
              ret.result[1] = ret.timetable[1]
        /\ \A now \in NowSet, risk \in RiskLevels :
              get_departure_options_for_weather(ret.timetable, risk, now) # <<>>
        /\ \A w \in EngineWeather :
              select_optimal_departure(ret.timetable, w, calculate_delay_buffer(w),
                                       <<>>, ret.current_time) # <<>>

\* in the evening, with no train left today, the options are tomorrow's
C25_Witness ==
    /\ GotOptions
    /\ NoneLeftToday(ret.timetable, ret.current_time)
    /\ Len(ret.timetable) = 3
    /\ ret.result = ret.timetable

\* ------------------------------------------------- consistent patterns
\* C26: every WeatherPattern of the analysis is consistent: risk_level is
\* high if and only if pattern_type is heavy_rain, clear implies low, and
\* light_rain implies medium.
C26_PatternConsistent ==
    ret.op = "determine_pattern" =>
        /\ ret.result.risk_level = "high" <=> ret.result.pattern_type = "heavy_rain"
        /\ ret.result.pattern_type = "clear" => ret.result.risk_level = "low"
        /\ ret.result.pattern_type = "light_rain" => ret.result.risk_level = "medium"
        /\ ret.result.pattern_type \in PatternTypes
        /\ ret.result.risk_level \in RiskLevels

\* heavy rain by the current rainfall alone, with a forecast maximum that
\* would not make the risk high by itself
C26_Witness ==
    /\ ret.op = "determine_pattern"
    /\ ret.result.pattern_type = "heavy_rain"
    /\ ret.max_1h <= 100
    /\ ret.result.risk_level = "high"

====
